---- MODULE Spec2Model ----
(***************************************************************************)
(* The escrow program: instruction decoding (instruction.rs), the error    *)
(* kinds (error.rs) and the two handlers InitEscrow / Exchange             *)
(* (processor.rs), run by a host ledger that commits or discards each      *)
(* invocation as a whole.                                                  *)
(*                                                                         *)
(* Widths are scaled so that TLC's integers can hold them: a byte is a     *)
(* digit of radix ByteBase (256 in the program) and a u64 is U64Bytes such *)
(* digits, so U64_MAX = ByteBase^8 - 1 and checked additions overflow at   *)
(* that value exactly as the program's do at 2^64 - 1.                     *)
(***************************************************************************)
EXTENDS Integers, Sequences, FiniteSets, TLC

\* ------------------------------------------------------------------ bounds

\* Radix of one byte of the wire format (256 in the program).
ByteBase == 4

\* Longest instruction byte sequence the decoding specification draws.
MaxInputLen == 10

\* Rent-exempt minimum of the Escrow record's storage (Rent::default()).
MinRecordRent == 2

\* Rent held by a token account of the custody service.
TokenRent == 3

\* ------------------------------------------------------------ u64 and bytes

U64Bytes == 8

RECURSIVE Pow(_, _)
Pow(b, n) == IF n = 0 THEN 1 ELSE b * Pow(b, n - 1)

U64_MAX == Pow(ByteBase, U64Bytes) - 1

\* u64::checked_add: None (ok = FALSE) when the sum does not fit.
checked_add(a, b) ==
  IF a + b > U64_MAX THEN [ok |-> FALSE, val |-> 0]
                     ELSE [ok |-> TRUE, val |-> a + b]

\* u64::from_le_bytes on 8 bytes: least significant byte first.
RECURSIVE from_le_bytes(_)
from_le_bytes(bytes) ==
  IF bytes = <<>> THEN 0
  ELSE Head(bytes) + ByteBase * from_le_bytes(Tail(bytes))

\* The client's encoding of an amount: the 8 little-endian bytes that
\* unpack_amount reads back.
RECURSIVE to_le_bytes(_, _)
to_le_bytes(n, len) ==
  IF len = 0 THEN <<>>
  ELSE <<n % ByteBase>> \o to_le_bytes(n \div ByteBase, len - 1)

\* ------------------------------------------------------------------ errors

Ok == [kind |-> "Ok", code |-> 0]

ProgramError(name) == [kind |-> name, code |-> 0]

\* impl From<EscrowError> for ProgramError: Custom(e as u32).
Custom(n) == [kind |-> "Custom", code |-> n]

\* enum EscrowError, in declaration order (discriminants 0..3).
InvalidInstruction == Custom(0)

NotRentExempt == Custom(1)

ExpectedAmountMismatch == Custom(2)

Overflow == Custom(3)

MissingRequiredSignature == ProgramError("MissingRequiredSignature")

IncorrectProgramId == ProgramError("IncorrectProgramId")

AccountAlreadyInitialized == ProgramError("AccountAlreadyInitialized")

InvalidAccountData == ProgramError("InvalidAccountData")

UninitializedAccount == ProgramError("UninitializedAccount")

NotEnoughAccountKeys == ProgramError("NotEnoughAccountKeys")

\* --------------------------------------------------------- instruction.rs

\* What unpack returns: Ok(InitEscrow{amount}) / Ok(Exchange{amount}) / Err.
Decoded(variant, amount) == [ok |-> TRUE, variant |-> variant, amount |-> amount]

DecodeErr == [ok |-> FALSE, variant |-> "none", amount |-> 0]

\* The mutant of unpack_amount: a short amount is padded with zero bytes.
unpack_amount_padded(input) ==
  LET n == IF Len(input) < U64Bytes THEN Len(input) ELSE U64Bytes
  IN  [ok |-> TRUE, val |-> from_le_bytes(SubSeq(input, 1, n))]

\* The mutant of unpack_amount: the eight bytes read most significant first.
unpack_amount_be(input) ==
  IF Len(input) < U64Bytes THEN [ok |-> FALSE, val |-> 0]
  ELSE [ok |-> TRUE,
        val |-> from_le_bytes([i \in 1..U64Bytes |-> input[U64Bytes + 1 - i]])]

\* EscrowInstruction::unpack_amount: input.get(..8), as a little-endian u64.
unpack_amount(input) ==
  IF Len(input) < U64Bytes THEN [ok |-> FALSE, val |-> 0]
  ELSE [ok |-> TRUE, val |-> from_le_bytes(SubSeq(input, 1, U64Bytes))]

\* EscrowInstruction::unpack: split_first, then the tag selects the variant.
unpack(input) ==
  IF input = <<>> THEN DecodeErr
  ELSE LET tag  == Head(input)
           rest == Tail(input)
           amt  == unpack_amount(rest)
       IN  CASE tag = 0 -> IF amt.ok THEN Decoded("InitEscrow", amt.val) ELSE DecodeErr
             [] tag = 1 -> IF amt.ok THEN Decoded("Exchange", amt.val) ELSE DecodeErr
             [] OTHER   -> DecodeErr

\* ------------------------------------------------------------------ ledger

Principals == {"alice", "bob"}

TokenAccounts == {"tmpX", "aliceY", "bobY", "bobX"}

Records == {"escrowA", "escrowB"}

SystemProgram == "system_program"

\* spl_token::id(): the external asset-custody service.
TokenProgram == "spl_token"

\* program_id: the escrow program itself.
EscrowProgram == "escrow_program"

\* Pubkey::find_program_address(&[b"escrow"], program_id): one address for
\* the whole program, whatever the record.
PDA == "pda"

Addresses == Principals \cup TokenAccounts \cup Records \cup {"mintY", PDA}

\* Account data: nothing, a token account of the custody service
\* (spl_token::state::Account), a mint of it, or an Escrow record.
NoData == [kind |-> "empty"]

TokenData(mint, owner, amount) ==
  [kind |-> "token", mint |-> mint, owner |-> owner, amount |-> amount]

MintData == [kind |-> "mint"]

\* struct Escrow: is_initialized, initializer_pubkey,
\* temp_token_account_pubkey, initializer_dest_token_account_pubkey,
\* expected_amount.  The zeroed storage is the uninitialized record.
EscrowData(init, initializer, temp, dest, amount) ==
  [kind |-> "escrow", is_initialized |-> init,
   initializer_pubkey |-> initializer,
   temp_token_account_pubkey |-> temp,
   initializer_dest_token_account_pubkey |-> dest,
   expected_amount |-> amount]

ZeroKey == "0"

ZeroedEscrow == EscrowData(FALSE, ZeroKey, ZeroKey, ZeroKey, 0)

Account(lamports, owner, data) ==
  [lamports |-> lamports, owner |-> owner, data |-> data]

\* Escrow::unpack_unchecked (Pack): the length must be Escrow::LEN.
Escrow_unpack_unchecked(data) ==
  IF data.kind = "escrow" THEN [res |-> Ok, val |-> data]
  ELSE [res |-> InvalidAccountData, val |-> ZeroedEscrow]

\* Escrow::unpack (Pack): unpack_unchecked, then is_initialized().
Escrow_unpack(data) ==
  LET u == Escrow_unpack_unchecked(data)
  IN  IF u.res # Ok THEN u
      ELSE IF ~u.val.is_initialized
           THEN [res |-> UninitializedAccount, val |-> ZeroedEscrow]
           ELSE u

\* The mutant of Rent_is_exempt: any balance is taken as rent-exempt.
Rent_is_exempt_always(lamports, data) == lamports >= 0

\* Rent::is_exempt(&Rent::default(), lamports, data_len): the minimum grows
\* with the data length (empty < Escrow record < token account).
Rent_is_exempt(lamports, data) ==
  lamports >= (CASE data.kind = "escrow" -> MinRecordRent
                 [] data.kind = "token"  -> TokenRent
                 [] OTHER                -> 1)

\* ------------------------------------------------- external custody service

TokenError_InsufficientFunds == Custom(1)

TokenError_MintMismatch == Custom(3)

TokenError_OwnerMismatch == Custom(4)

TokenError_NonNativeHasBalance == Custom(11)

TokenError_Overflow == Custom(14)

\* The host refuses a cross-program call naming an account it was not given.
MissingAccount == ProgramError("MissingAccount")

\* TokenAccount::unpack: the data must be an initialized token account.
TokenAccount_unpack(data) ==
  IF data.kind = "token" THEN Ok ELSE InvalidAccountData

\* spl_token validate_owner: the authority is the account's owner and signed.
validate_owner(expected_owner, authority, signers) ==
  IF expected_owner # authority THEN TokenError_OwnerMismatch
  ELSE IF authority \notin signers THEN MissingRequiredSignature
  ELSE Ok

CallResult(res, st) == [res |-> res, st |-> st]

\* spl_token SetAuthority(AccountOwner): changeAuthority(account,
\* newAuthority, currentAuthority).
token_set_authority(st, account, new_authority, owner, signers) ==
  IF TokenAccount_unpack(st[account].data) # Ok
  THEN CallResult(TokenAccount_unpack(st[account].data), st)
  ELSE IF validate_owner(st[account].data.owner, owner, signers) # Ok
  THEN CallResult(validate_owner(st[account].data.owner, owner, signers), st)
  ELSE CallResult(Ok, [st EXCEPT ![account].data.owner = new_authority])

\* spl_token Transfer: transfer(source, destination, authority, amount).
token_transfer(st, source, destination, authority, amount, signers) ==
  IF TokenAccount_unpack(st[source].data) # Ok
  THEN CallResult(TokenAccount_unpack(st[source].data), st)
  ELSE IF TokenAccount_unpack(st[destination].data) # Ok
  THEN CallResult(TokenAccount_unpack(st[destination].data), st)
  ELSE IF st[source].data.amount < amount
  THEN CallResult(TokenError_InsufficientFunds, st)
  ELSE IF st[source].data.mint # st[destination].data.mint
  THEN CallResult(TokenError_MintMismatch, st)
  ELSE IF validate_owner(st[source].data.owner, authority, signers) # Ok
  THEN CallResult(validate_owner(st[source].data.owner, authority, signers), st)
  ELSE IF source = destination
  THEN CallResult(Ok, st)
  ELSE IF ~checked_add(st[destination].data.amount, amount).ok
  THEN CallResult(TokenError_Overflow, st)
  ELSE CallResult(Ok,
         [st EXCEPT ![source].data.amount = @ - amount,
                    ![destination].data.amount = @ + amount])

\* spl_token CloseAccount: closeAccount(account, rentDestination, authority).
token_close_account(st, account, destination, authority, signers) ==
  IF account = destination
  THEN CallResult(InvalidAccountData, st)
  ELSE IF TokenAccount_unpack(st[account].data) # Ok
  THEN CallResult(TokenAccount_unpack(st[account].data), st)
  ELSE IF st[account].data.amount # 0
  THEN CallResult(TokenError_NonNativeHasBalance, st)
  ELSE IF validate_owner(st[account].data.owner, authority, signers) # Ok
  THEN CallResult(validate_owner(st[account].data.owner, authority, signers), st)
  ELSE IF ~checked_add(st[destination].lamports, st[account].lamports).ok
  THEN CallResult(TokenError_Overflow, st)
  ELSE CallResult(Ok,
         [st EXCEPT ![destination].lamports = @ + st[account].lamports,
                    ![account].lamports = 0,
                    ![account].data = NoData])

\* invoke / invoke_signed: the call reaches the custody service only if every
\* account the instruction names is among the account infos handed over; an
\* account signs for the callee if it signed the transaction or is the
\* program-derived address of the seeds given.
invoke(infos, needed, signers, seeds_pda) ==
  IF ~(needed \subseteq infos) THEN [res |-> MissingAccount, signers |-> {}]
  ELSE [res |-> Ok, signers |-> (signers \cup seeds_pda) \cap infos]

\* ------------------------------------------------------------ processor.rs

\* What one run of a handler leaves: the ProgramResult, the place in the
\* handler that returned it, the accounts as the handler left them, and the
\* custody-service calls it issued, in order.
Outcome(res, at, st, calls) ==
  [res |-> res, at |-> at, st |-> st, calls |-> calls]

\* The mutant of init_write_escrow: an open record is overwritten.
init_write_escrow_overwrite(st, escrow_account, initializer, temp, dest, amount) ==
  IF Escrow_unpack_unchecked(st[escrow_account].data).res # Ok
  THEN CallResult(Escrow_unpack_unchecked(st[escrow_account].data).res, st)
  ELSE CallResult(Ok, [st EXCEPT ![escrow_account].data =
                         EscrowData(TRUE, initializer, temp, dest, amount)])

\* The mutant of init_write_escrow: an Open on an open record updates its
\* expected amount.
init_write_escrow_amount(st, escrow_account, initializer, temp, dest, amount) ==
  IF Escrow_unpack_unchecked(st[escrow_account].data).res # Ok
  THEN CallResult(Escrow_unpack_unchecked(st[escrow_account].data).res, st)
  ELSE IF Escrow_unpack_unchecked(st[escrow_account].data).val.is_initialized
  THEN CallResult(Ok, [st EXCEPT ![escrow_account].data.expected_amount = amount])
  ELSE CallResult(Ok, [st EXCEPT ![escrow_account].data =
                         EscrowData(TRUE, initializer, temp, dest, amount)])

\* The mutant of init_write_escrow: the supplied amount is not stored.
init_write_escrow_no_amount(st, escrow_account, initializer, temp, dest, amount) ==
  IF Escrow_unpack_unchecked(st[escrow_account].data).res # Ok
  THEN CallResult(Escrow_unpack_unchecked(st[escrow_account].data).res, st)
  ELSE IF Escrow_unpack_unchecked(st[escrow_account].data).val.is_initialized
  THEN CallResult(AccountAlreadyInitialized, st)
  ELSE CallResult(Ok, [st EXCEPT ![escrow_account].data =
                         EscrowData(TRUE, initializer, temp, dest, 0)])

\* process_init_escrow, the record: unpack_unchecked, refuse an initialized
\* record, set the five fields and pack them back.
init_write_escrow(st, escrow_account, initializer, temp, dest, amount) ==
  IF Escrow_unpack_unchecked(st[escrow_account].data).res # Ok
  THEN CallResult(Escrow_unpack_unchecked(st[escrow_account].data).res, st)
  ELSE IF Escrow_unpack_unchecked(st[escrow_account].data).val.is_initialized
  THEN CallResult(AccountAlreadyInitialized, st)
  ELSE CallResult(Ok, [st EXCEPT ![escrow_account].data =
                         EscrowData(TRUE, initializer, temp, dest, amount)])

\* The mutant of init_check_dest: the destination's owner is not looked at.
init_check_dest_unchecked(st, dest_token_account) ==
  TokenAccount_unpack(st[dest_token_account].data)

\* process_init_escrow, the initializer's destination account: owned by the
\* custody service, and a token account of it.
init_check_dest(st, dest_token_account) ==
  IF st[dest_token_account].owner # TokenProgram THEN IncorrectProgramId
  ELSE TokenAccount_unpack(st[dest_token_account].data)

\* The mutant of process_init_escrow: the result of the authority change is
\* not looked at.
process_init_escrow_swallow(st, accounts, signers, amount) ==
  IF Len(accounts) < 1
  THEN Outcome(NotEnoughAccountKeys, "accounts", st, <<>>)
  ELSE IF accounts[1] \notin signers
  THEN Outcome(MissingRequiredSignature, "signer", st, <<>>)
  ELSE IF Len(accounts) < 3
  THEN Outcome(NotEnoughAccountKeys, "accounts", st, <<>>)
  ELSE IF init_check_dest(st, accounts[3]) # Ok
  THEN Outcome(init_check_dest(st, accounts[3]), "dest", st, <<>>)
  ELSE IF Len(accounts) < 4
  THEN Outcome(NotEnoughAccountKeys, "accounts", st, <<>>)
  ELSE IF ~Rent_is_exempt(st[accounts[4]].lamports, st[accounts[4]].data)
  THEN Outcome(NotRentExempt, "rent", st, <<>>)
  ELSE
    LET initializer == accounts[1]
        temp_token_account == accounts[2]
        dest_token_account == accounts[3]
        escrow_account == accounts[4]
        w == init_write_escrow(st, escrow_account, initializer,
                               temp_token_account, dest_token_account, amount)
    IN
    IF w.res # Ok
    THEN Outcome(w.res, "escrow", st, <<>>)
    ELSE IF Len(accounts) < 5
    THEN Outcome(NotEnoughAccountKeys, "accounts", w.st, <<>>)
    ELSE
      LET iv == invoke({temp_token_account, initializer, accounts[5]},
                       {temp_token_account, initializer}, signers, {})
          c == token_set_authority(w.st, temp_token_account, PDA,
                                   initializer, iv.signers)
      IN
      IF iv.res # Ok
      THEN Outcome(iv.res, "set_authority", w.st, <<"set_authority">>)
      ELSE Outcome(Ok, "done", c.st, <<"set_authority">>)

\* The mutant of process_init_escrow: the authority change is not issued.
process_init_escrow_no_handover(st, accounts, signers, amount) ==
  IF Len(accounts) < 1
  THEN Outcome(NotEnoughAccountKeys, "accounts", st, <<>>)
  ELSE IF accounts[1] \notin signers
  THEN Outcome(MissingRequiredSignature, "signer", st, <<>>)
  ELSE IF Len(accounts) < 3
  THEN Outcome(NotEnoughAccountKeys, "accounts", st, <<>>)
  ELSE IF init_check_dest(st, accounts[3]) # Ok
  THEN Outcome(init_check_dest(st, accounts[3]), "dest", st, <<>>)
  ELSE IF Len(accounts) < 4
  THEN Outcome(NotEnoughAccountKeys, "accounts", st, <<>>)
  ELSE IF ~Rent_is_exempt(st[accounts[4]].lamports, st[accounts[4]].data)
  THEN Outcome(NotRentExempt, "rent", st, <<>>)
  ELSE
    LET initializer == accounts[1]
        temp_token_account == accounts[2]
        dest_token_account == accounts[3]
        escrow_account == accounts[4]
        w == init_write_escrow(st, escrow_account, initializer,
                               temp_token_account, dest_token_account, amount)
    IN
    IF w.res # Ok
    THEN Outcome(w.res, "escrow", st, <<>>)
    ELSE IF Len(accounts) < 5
    THEN Outcome(NotEnoughAccountKeys, "accounts", w.st, <<>>)
    ELSE
      Outcome(Ok, "done", w.st, <<>>)

\* Processor::process_init_escrow.
process_init_escrow(st, accounts, signers, amount) ==
  IF Len(accounts) < 1
  THEN Outcome(NotEnoughAccountKeys, "accounts", st, <<>>)
  ELSE IF accounts[1] \notin signers
  THEN Outcome(MissingRequiredSignature, "signer", st, <<>>)
  ELSE IF Len(accounts) < 3
  THEN Outcome(NotEnoughAccountKeys, "accounts", st, <<>>)
  ELSE IF init_check_dest(st, accounts[3]) # Ok
  THEN Outcome(init_check_dest(st, accounts[3]), "dest", st, <<>>)
  ELSE IF Len(accounts) < 4
  THEN Outcome(NotEnoughAccountKeys, "accounts", st, <<>>)
  ELSE IF ~Rent_is_exempt(st[accounts[4]].lamports, st[accounts[4]].data)
  THEN Outcome(NotRentExempt, "rent", st, <<>>)
  ELSE
    LET initializer == accounts[1]
        temp_token_account == accounts[2]
        dest_token_account == accounts[3]
        escrow_account == accounts[4]
        w == init_write_escrow(st, escrow_account, initializer,
                               temp_token_account, dest_token_account, amount)
    IN
    IF w.res # Ok
    THEN Outcome(w.res, "escrow", st, <<>>)
    ELSE IF Len(accounts) < 5
    THEN Outcome(NotEnoughAccountKeys, "accounts", w.st, <<>>)
    ELSE
      LET iv == invoke({temp_token_account, initializer, accounts[5]},
                       {temp_token_account, initializer}, signers, {})
          c == token_set_authority(w.st, temp_token_account, PDA,
                                   initializer, iv.signers)
      IN
      IF iv.res # Ok
      THEN Outcome(iv.res, "set_authority", w.st, <<"set_authority">>)
      ELSE IF c.res # Ok
      THEN Outcome(c.res, "set_authority", c.st, <<"set_authority">>)
      ELSE Outcome(Ok, "done", c.st, <<"set_authority">>)

\* The nine account references of Exchange, in the order they are read.
ExchangeAccounts(accounts) ==
  [taker |-> accounts[1],
   taker_source_token_account |-> accounts[2],
   taker_dest_token_account |-> accounts[3],
   temp_token_account |-> accounts[4],
   initializer |-> accounts[5],
   initializer_dest_token_account |-> accounts[6],
   escrow_account |-> accounts[7],
   token_program |-> accounts[8],
   pda_account |-> accounts[9]]

\* The mutant of exchange_check_accounts: the initializer's destination
\* account is not compared with the record's.
exchange_check_accounts_no_dest(a, escrow) ==
  IF a.temp_token_account # escrow.temp_token_account_pubkey THEN "check_temp"
  ELSE IF a.initializer # escrow.initializer_pubkey THEN "check_initializer"
  ELSE "ok"

\* The mutant of exchange_check_accounts: the holding account is not compared
\* with the record's.
exchange_check_accounts_no_temp(a, escrow) ==
  IF a.initializer # escrow.initializer_pubkey THEN "check_initializer"
  ELSE IF a.initializer_dest_token_account
            # escrow.initializer_dest_token_account_pubkey THEN "check_dest"
  ELSE "ok"

\* process_exchange, "Check everything matches up with our escrow": the first
\* of the three comparisons that fails, or "ok".
exchange_check_accounts(a, escrow) ==
  IF a.temp_token_account # escrow.temp_token_account_pubkey THEN "check_temp"
  ELSE IF a.initializer # escrow.initializer_pubkey THEN "check_initializer"
  ELSE IF a.initializer_dest_token_account
            # escrow.initializer_dest_token_account_pubkey THEN "check_dest"
  ELSE "ok"

\* The mutant of exchange_check_amount: the caller's amount is not compared.
exchange_check_amount_any(st, a, amount) ==
  TokenAccount_unpack(st[a.temp_token_account].data)

\* process_exchange: the holding account decodes and holds exactly `amount`.
exchange_check_amount(st, a, amount) ==
  IF TokenAccount_unpack(st[a.temp_token_account].data) # Ok
  THEN TokenAccount_unpack(st[a.temp_token_account].data)
  ELSE IF st[a.temp_token_account].data.amount # amount
  THEN ExpectedAmountMismatch
  ELSE Ok

\* process_exchange, "Transfer tokens from taker to initializer":
\* escrow.expected_amount, on the taker's authority.
exchange_transfer_to_initializer(st, a, escrow, signers) ==
  LET iv == invoke({a.taker_source_token_account,
                    a.initializer_dest_token_account, a.taker},
                   {a.taker_source_token_account,
                    a.initializer_dest_token_account, a.taker},
                   signers, {})
  IN  IF iv.res # Ok THEN CallResult(iv.res, st)
      ELSE token_transfer(st, a.taker_source_token_account,
                          a.initializer_dest_token_account, a.taker,
                          escrow.expected_amount, iv.signers)

\* process_exchange, "Transfer tokens from initializer's temp account to
\* taker": `amount`, on the program-derived authority (invoke_signed).
exchange_transfer_to_taker(st, a, escrow, amount, signers) ==
  LET iv == invoke({a.temp_token_account, a.taker_dest_token_account,
                    a.pda_account},
                   {a.temp_token_account, a.taker_dest_token_account, PDA},
                   signers, {PDA})
  IN  IF iv.res # Ok THEN CallResult(iv.res, st)
      ELSE token_transfer(st, a.temp_token_account,
                          a.taker_dest_token_account, PDA, amount, iv.signers)

\* The mutant of exchange_close_temp: the holding account's rent goes to the
\* taker.
exchange_close_temp_to_taker(st, a, signers) ==
  LET iv == invoke({a.temp_token_account, a.taker, a.pda_account},
                   {a.temp_token_account, a.taker, PDA},
                   signers, {PDA})
  IN  IF iv.res # Ok THEN CallResult(iv.res, st)
      ELSE token_close_account(st, a.temp_token_account, a.taker,
                               PDA, iv.signers)

\* process_exchange, "Close temp token account": its rent goes to the
\* initializer, on the program-derived authority (invoke_signed).
exchange_close_temp(st, a, signers) ==
  LET iv == invoke({a.temp_token_account, a.initializer, a.pda_account},
                   {a.temp_token_account, a.initializer, PDA},
                   signers, {PDA})
  IN  IF iv.res # Ok THEN CallResult(iv.res, st)
      ELSE token_close_account(st, a.temp_token_account, a.initializer,
                               PDA, iv.signers)

\* The mutant of exchange_close_escrow: wrapping_add instead of checked_add.
exchange_close_escrow_wrapping(st, a) ==
  CallResult(Ok,
    [st EXCEPT ![a.initializer].lamports =
                  (@ + st[a.escrow_account].lamports) % (U64_MAX + 1),
               ![a.escrow_account] = Account(0, @.owner, NoData)])

\* The mutant of exchange_close_escrow: an overflow is ignored and the record
\* is closed without its rent being credited.
exchange_close_escrow_swallow(st, a) ==
  LET sum == checked_add(st[a.initializer].lamports,
                         st[a.escrow_account].lamports)
  IN  CallResult(Ok,
        [st EXCEPT ![a.initializer].lamports = IF sum.ok THEN sum.val ELSE @,
                   ![a.escrow_account] = Account(0, @.owner, NoData)])

\* The mutant of exchange_close_escrow: the rent is paid out but the record's
\* storage is left as it is.
exchange_close_escrow_keep(st, a) ==
  LET sum == checked_add(st[a.initializer].lamports,
                         st[a.escrow_account].lamports)
  IN  IF ~sum.ok THEN CallResult(Overflow, st)
      ELSE CallResult(Ok,
             [st EXCEPT ![a.initializer].lamports = sum.val])

\* The mutant of exchange_close_escrow: the record is emptied without its
\* rent being credited to anyone.
exchange_close_escrow_burn(st, a) ==
  CallResult(Ok, [st EXCEPT ![a.escrow_account] = Account(0, @.owner, NoData)])

\* process_exchange, "Closing the escrow account": the record's lamports are
\* added to the initializer's with checked_add, then the record's lamports
\* and data are emptied.
exchange_close_escrow(st, a) ==
  LET sum == checked_add(st[a.initializer].lamports,
                         st[a.escrow_account].lamports)
  IN  IF ~sum.ok THEN CallResult(Overflow, st)
      ELSE CallResult(Ok,
             [[st EXCEPT ![a.initializer].lamports = sum.val]
                  EXCEPT ![a.escrow_account] = Account(0, @.owner, NoData)])

\* The mutant of process_exchange: the taker's signature is not asked for.
process_exchange_unsigned(st, accounts, signers, amount) ==
  IF Len(accounts) < 9
  THEN Outcome(NotEnoughAccountKeys, "accounts", st, <<>>)
  ELSE
    LET a == ExchangeAccounts(accounts)
        e == Escrow_unpack(st[a.escrow_account].data)
        escrow == e.val
        l1 == exchange_transfer_to_initializer(st, a, escrow, signers)
        l2 == exchange_transfer_to_taker(l1.st, a, escrow, amount, signers)
        c3 == exchange_close_temp(l2.st, a, signers)
        c4 == exchange_close_escrow(c3.st, a)
        leg1 == <<"transfer_to_initializer">>
        leg2 == leg1 \o <<"transfer_to_taker">>
        all3 == leg2 \o <<"close_account">>
    IN
    IF e.res # Ok
    THEN Outcome(e.res, "unpack_escrow", st, <<>>)
    ELSE IF exchange_check_accounts(a, escrow) # "ok"
    THEN Outcome(InvalidAccountData, exchange_check_accounts(a, escrow), st, <<>>)
    ELSE IF exchange_check_amount(st, a, amount) # Ok
    THEN Outcome(exchange_check_amount(st, a, amount), "check_amount", st, <<>>)
    ELSE IF l1.res # Ok
    THEN Outcome(l1.res, "transfer_to_initializer", l1.st, leg1)
    ELSE IF l2.res # Ok
    THEN Outcome(l2.res, "transfer_to_taker", l2.st, leg2)
    ELSE IF c3.res # Ok
    THEN Outcome(c3.res, "close_account", c3.st, all3)
    ELSE IF c4.res # Ok
    THEN Outcome(c4.res, "close_escrow", c4.st, all3)
    ELSE Outcome(Ok, "done", c4.st, all3)

\* The mutant of process_exchange: the holding balance is checked before the
\* accounts are compared with the record's.
process_exchange_amount_first(st, accounts, signers, amount) ==
  IF Len(accounts) < 9
  THEN Outcome(NotEnoughAccountKeys, "accounts", st, <<>>)
  ELSE
    LET a == ExchangeAccounts(accounts)
        e == Escrow_unpack(st[a.escrow_account].data)
        escrow == e.val
        l1 == exchange_transfer_to_initializer(st, a, escrow, signers)
        l2 == exchange_transfer_to_taker(l1.st, a, escrow, amount, signers)
        c3 == exchange_close_temp(l2.st, a, signers)
        c4 == exchange_close_escrow(c3.st, a)
        leg1 == <<"transfer_to_initializer">>
        leg2 == leg1 \o <<"transfer_to_taker">>
        all3 == leg2 \o <<"close_account">>
    IN
    IF e.res # Ok
    THEN Outcome(e.res, "unpack_escrow", st, <<>>)
    ELSE IF a.taker \notin signers
    THEN Outcome(MissingRequiredSignature, "signer", st, <<>>)
    ELSE IF exchange_check_amount(st, a, amount) # Ok
    THEN Outcome(exchange_check_amount(st, a, amount), "check_amount", st, <<>>)
    ELSE IF exchange_check_accounts(a, escrow) # "ok"
    THEN Outcome(InvalidAccountData, exchange_check_accounts(a, escrow), st, <<>>)
    ELSE IF l1.res # Ok
    THEN Outcome(l1.res, "transfer_to_initializer", l1.st, leg1)
    ELSE IF l2.res # Ok
    THEN Outcome(l2.res, "transfer_to_taker", l2.st, leg2)
    ELSE IF c3.res # Ok
    THEN Outcome(c3.res, "close_account", c3.st, all3)
    ELSE IF c4.res # Ok
    THEN Outcome(c4.res, "close_escrow", c4.st, all3)
    ELSE Outcome(Ok, "done", c4.st, all3)

\* Processor::process_exchange.
process_exchange(st, accounts, signers, amount) ==
  IF Len(accounts) < 9
  THEN Outcome(NotEnoughAccountKeys, "accounts", st, <<>>)
  ELSE
    LET a == ExchangeAccounts(accounts)
        e == Escrow_unpack(st[a.escrow_account].data)
        escrow == e.val
        l1 == exchange_transfer_to_initializer(st, a, escrow, signers)
        l2 == exchange_transfer_to_taker(l1.st, a, escrow, amount, signers)
        c3 == exchange_close_temp(l2.st, a, signers)
        c4 == exchange_close_escrow(c3.st, a)
        leg1 == <<"transfer_to_initializer">>
        leg2 == leg1 \o <<"transfer_to_taker">>
        all3 == leg2 \o <<"close_account">>
    IN
    IF e.res # Ok
    THEN Outcome(e.res, "unpack_escrow", st, <<>>)
    ELSE IF a.taker \notin signers
    THEN Outcome(MissingRequiredSignature, "signer", st, <<>>)
    ELSE IF exchange_check_accounts(a, escrow) # "ok"
    THEN Outcome(InvalidAccountData, exchange_check_accounts(a, escrow), st, <<>>)
    ELSE IF exchange_check_amount(st, a, amount) # Ok
    THEN Outcome(exchange_check_amount(st, a, amount), "check_amount", st, <<>>)
    ELSE IF l1.res # Ok
    THEN Outcome(l1.res, "transfer_to_initializer", l1.st, leg1)
    ELSE IF l2.res # Ok
    THEN Outcome(l2.res, "transfer_to_taker", l2.st, leg2)
    ELSE IF c3.res # Ok
    THEN Outcome(c3.res, "close_account", c3.st, all3)
    ELSE IF c4.res # Ok
    THEN Outcome(c4.res, "close_escrow", c4.st, all3)
    ELSE Outcome(Ok, "done", c4.st, all3)

\* Processor::process: decode the instruction, then run its handler.
process(st, accounts, signers, input) ==
  LET instruction == unpack(input)
  IN  IF ~instruction.ok
      THEN Outcome(InvalidInstruction, "unpack", st, <<>>)
      ELSE IF instruction.variant = "InitEscrow"
      THEN process_init_escrow(st, accounts, signers, instruction.amount)
      ELSE process_exchange(st, accounts, signers, instruction.amount)

\* ------------------------------------------------------------ state machine

VARIABLES
  accounts,   \* the ledger: address -> [lamports, owner, data]
  tx,         \* the transaction in flight: <<>> or <<[data, accounts, signers]>>
  result,     \* what the last invocation returned: <<>> or
              \* <<[tx, res, at, calls, pre, settled_before]>>
  settled     \* the records on which an Exchange has succeeded

vars == <<accounts, tx, result, settled>>

\* Amounts the callers put in their instructions.
\* Units of asset X the initializer deposited in the holding account.
Deposit == 5

Amounts == {0, 1, Deposit}

\* The initializer's principal balance: ordinary, the largest that still
\* takes the holding account's rent and the record's, and one lamport more.
AliceBalances ==
  {7, U64_MAX - TokenRent - MinRecordRent,
      U64_MAX - TokenRent - MinRecordRent + 1}

InitAccounts(alice_lamports) ==
  [k \in Addresses |->
     CASE k = "alice"   -> Account(alice_lamports, SystemProgram, NoData)
       [] k = "bob"     -> Account(7, SystemProgram, NoData)
       [] k = "tmpX"    -> Account(TokenRent, TokenProgram, TokenData("X", "alice", Deposit))
       [] k = "aliceY"  -> Account(TokenRent, TokenProgram, TokenData("Y", "alice", 0))
       [] k = "bobY"    -> Account(TokenRent, TokenProgram, TokenData("Y", "bob", Deposit))
       [] k = "bobX"    -> Account(TokenRent, TokenProgram, TokenData("X", "bob", 0))
       [] k = "mintY"   -> Account(TokenRent, TokenProgram, MintData)
       [] k = "escrowA" -> Account(MinRecordRent, EscrowProgram, ZeroedEscrow)
       [] k = "escrowB" -> Account(MinRecordRent - 1, EscrowProgram, ZeroedEscrow)
       [] OTHER         -> Account(0, SystemProgram, NoData)]

Init ==
  /\ \E b \in AliceBalances : accounts = InitAccounts(b)
  /\ tx = <<>>
  /\ result = <<>>
  /\ settled = {}

Transaction(data, accs, signers) ==
  [data |-> data, accounts |-> accs, signers |-> signers]

Signed(who, signed) == IF signed THEN {who} ELSE {}

\* A client sends an InitEscrow instruction with its five accounts.
SubmitInitEscrow ==
  /\ tx = <<>> /\ result = <<>>
  /\ \E initializer \in Principals, signed \in BOOLEAN,
        temp \in {"tmpX", "bobX"},
        dest \in {"aliceY", "bobY", "alice", "mintY"},
        escrow_account \in Records, amount \in Amounts :
       tx' = << Transaction(<<0>> \o to_le_bytes(amount, U64Bytes),
                            <<initializer, temp, dest, escrow_account, TokenProgram>>,
                            Signed(initializer, signed)) >>
  /\ UNCHANGED <<accounts, result, settled>>

\* A client sends an Exchange instruction with its nine accounts.
SubmitExchange ==
  /\ tx = <<>> /\ result = <<>>
  /\ \E taker \in Principals, signed \in BOOLEAN,
        src \in {"bobY", "aliceY"}, dst \in {"bobX", "tmpX"},
        temp \in {"tmpX", "bobX"}, initializer \in Principals,
        dest \in {"aliceY", "bobY"}, escrow_account \in Records,
        amount \in Amounts, pda_account \in {PDA, "bob"} :
       tx' = << Transaction(<<1>> \o to_le_bytes(amount, U64Bytes),
                            <<taker, src, dst, temp, initializer, dest,
                              escrow_account, TokenProgram, pda_account>>,
                            Signed(taker, signed)) >>
  /\ UNCHANGED <<accounts, result, settled>>

\* The host's end of a transaction: an account left without lamports is
\* removed from the ledger (no data, owned by the system program).
Purge(st) ==
  [k \in DOMAIN st |->
     IF st[k].lamports = 0 THEN Account(0, SystemProgram, NoData) ELSE st[k]]

\* The host's transaction model: the effects of an invocation that returned
\* Ok are committed, those of one that returned an error are discarded.
Commit(before, out) ==
  IF out.res = Ok THEN Purge(out.st) ELSE before

\* The host runs the transaction in flight through Processor::process and
\* commits or discards it as a whole.
Process ==
  /\ tx # <<>>
  /\ LET t   == tx[1]
         out == process(accounts, t.accounts, t.signers, t.data)
     IN  /\ accounts' = Commit(accounts, out)
         /\ result' = << [tx |-> t, res |-> out.res, at |-> out.at,
                          calls |-> out.calls, pre |-> accounts,
                          settled_before |-> settled] >>
         /\ settled' = IF out.res = Ok /\ unpack(t.data).variant = "Exchange"
                        THEN settled \cup {t.accounts[7]}
                        ELSE settled
  /\ tx' = <<>>

\* The caller takes the result.
Return ==
  /\ result # <<>>
  /\ result' = <<>>
  /\ UNCHANGED <<accounts, tx, settled>>

Next == SubmitInitEscrow \/ SubmitExchange \/ Process \/ Return

Spec == Init /\ [][Next]_vars

\* ---------------------------------------------- the decoding specification

\* Instruction bytes: a tag byte, then amount bytes, of any length up to
\* MaxInputLen.
TagBytes == {0, 1, 2}

AmountBytes == {0, 1}

InputsOfLen(n) ==
  IF n = 0 THEN {<<>>}
  ELSE {<<t>> \o b : t \in TagBytes, b \in [1..(n - 1) -> AmountBytes]}

Inputs == UNION {InputsOfLen(n) : n \in 0..MaxInputLen}

\* Nine accounts that serve InitEscrow (the first five) and Exchange alike.
DecodeAccounts ==
  <<"alice", "tmpX", "aliceY", "escrowA", TokenProgram,
    "aliceY", "escrowA", TokenProgram, PDA>>

InitDecode ==
  /\ accounts = InitAccounts(7)
  /\ \E input \in Inputs :
       tx = << Transaction(input, DecodeAccounts, {"alice"}) >>
  /\ result = <<>>
  /\ settled = {}

NextDecode == Process \/ Return

SpecDecode == InitDecode /\ [][NextDecode]_vars

\* ------------------------------------------- the two-record specification

\* A ledger on which both record storages are rent-exempt, so that two
\* Records can be open at once, and bob's X account holds something to
\* escrow.
InitTwoRecords ==
  /\ accounts = [InitAccounts(7) EXCEPT
                   !["escrowB"].lamports = MinRecordRent,
                   !["bobX"].data.amount = 1]
  /\ tx = <<>>
  /\ result = <<>>
  /\ settled = {}

SpecTwoRecords == InitTwoRecords /\ [][Next]_vars

\* ------------------------------------------------------------------ claims

\* The last invocation, when it was an InitEscrow / an Exchange.
Returned == result # <<>>

R == result[1]

WasInit == Returned /\ unpack(R.tx.data).variant = "InitEscrow"

WasExchange ==
  Returned /\ unpack(R.tx.data).variant = "Exchange" /\ Len(R.tx.accounts) = 9

\* The amount the caller put in the instruction.
CallerAmount == unpack(R.tx.data).amount

\* The accounts the last Exchange named, and the record and the holding
\* account as they were before it.
X == ExchangeAccounts(R.tx.accounts)

RecordBefore == R.pre[X.escrow_account].data

RecordWasOpen == RecordBefore.kind = "escrow" /\ RecordBefore.is_initialized

TakerSigned == X.taker \in R.tx.signers

\* Nothing of the ledger differs from what it was before the invocation.
NothingChanged == accounts = R.pre

Closed == Account(0, SystemProgram, NoData)

\* The asset balance account k holds after both legs of the last Exchange,
\* each leg applied to the accounts it names: E out of the taker's source and
\* into the initializer's destination, H out of the holding account and into
\* the taker's destination.
BalanceAfterLegs(k, E, H) ==
  R.pre[k].data.amount
    - (IF k = X.taker_source_token_account THEN E ELSE 0)
    + (IF k = X.initializer_dest_token_account THEN E ELSE 0)
    - (IF k = X.temp_token_account THEN H ELSE 0)
    + (IF k = X.taker_dest_token_account THEN H ELSE 0)

\* The four effects of a Settle, against the state before it.
PaidAndDelivered ==
  \A k \in TokenAccounts \ {X.temp_token_account} :
    IF R.pre[k].data.kind = "token"
    THEN /\ accounts[k].data.kind = "token"
         /\ accounts[k].data.amount =
              BalanceAfterLegs(k, RecordBefore.expected_amount,
                               R.pre[X.temp_token_account].data.amount)
    ELSE accounts[k] = R.pre[k]

HoldingClosed == accounts[X.temp_token_account] = Closed

RecordDestroyed == accounts[X.escrow_account] = Closed

RentCredited ==
  accounts[X.initializer].lamports =
    R.pre[X.initializer].lamports + R.pre[X.temp_token_account].lamports
      + R.pre[X.escrow_account].lamports

\* C1: settlement is all-or-nothing.  Whatever Opens and Settles came before,
\* the state a Settle leaves committed either has all four effects of the
\* settlement (the taker paid the initializer's destination account, the
\* holding balance was delivered to the taker's destination account, the
\* holding account is closed, the Record is destroyed and its rent credited to
\* the initializer), which is the case exactly when it succeeded, or has none
\* and every account and the Record are as before the call.
C1_SettleAllOrNothing ==
  WasExchange =>
    \/ /\ R.res = Ok
       /\ PaidAndDelivered /\ HoldingClosed /\ RecordDestroyed /\ RentCredited
    \/ /\ R.res # Ok
       /\ NothingChanged

\* C1's case: a Settle that failed after both legs and the close had been
\* applied inside the invocation, and one that succeeded.
C1_Witness ==
  /\ WasExchange
  /\ R.res # Ok
  /\ Len(R.calls) = 3
  /\ NothingChanged
  /\ R.pre[X.temp_token_account].data.amount > 0

\* C2: a successful Settle on a Record opened with expected amount E, whose
\* holding account holds H units and rent Rh, called with amount = H, and
\* whose Record holds rent Rr, yields exactly: taker's destination += H,
\* taker's source -= E, initializer's destination += E, the holding account
\* closed with balance 0, the Record's storage emptied with balance 0, and the
\* initializer's principal balance += Rr + Rh.
C2_SettleEffect ==
  (WasExchange /\ R.res = Ok) =>
    LET E  == RecordBefore.expected_amount
        H  == R.pre[X.temp_token_account].data.amount
        Rh == R.pre[X.temp_token_account].lamports
        Rr == R.pre[X.escrow_account].lamports
    IN  /\ RecordWasOpen
        /\ CallerAmount = H
        /\ \A k \in {X.taker_dest_token_account, X.taker_source_token_account,
                     X.initializer_dest_token_account} \ {X.temp_token_account} :
             accounts[k].data.amount = BalanceAfterLegs(k, E, H)
        /\ accounts[X.temp_token_account].lamports = 0
        /\ accounts[X.temp_token_account].data = NoData
        /\ accounts[X.escrow_account].lamports = 0
        /\ accounts[X.escrow_account].data = NoData
        /\ accounts[X.initializer].lamports = R.pre[X.initializer].lamports + Rr + Rh

\* C2's case: the spec's example in small, E = 1 and H = Deposit, the four
\* asset accounts distinct.
C2_Witness ==
  /\ WasExchange
  /\ R.res = Ok
  /\ RecordBefore.expected_amount = 1
  /\ CallerAmount = Deposit
  /\ X.taker = "bob" /\ X.initializer = "alice"
  /\ accounts["bobX"].data.amount = R.pre["bobX"].data.amount + Deposit
  /\ accounts["bobY"].data.amount = R.pre["bobY"].data.amount - 1
  /\ accounts["aliceY"].data.amount = R.pre["aliceY"].data.amount + 1
  /\ accounts["tmpX"] = Closed

\* C3: no replay.  Once a Settle on a Record has succeeded, the Record is no
\* longer there, and every later Settle naming that Record (an identical
\* re-submission included) fails where the Record is decoded and changes
\* nothing; so at most one Settle per opened Record succeeds, and the escrowed
\* asset is delivered and the payment taken at most once.
C3_NoReplay ==
  /\ \A rec \in settled : accounts[rec] = Closed
  /\ (WasExchange /\ X.escrow_account \in R.settled_before) =>
       /\ R.res \in {InvalidAccountData, UninitializedAccount}
       /\ R.at = "unpack_escrow"
       /\ R.calls = <<>>
       /\ NothingChanged

\* C3's case: a Settle, signed and naming the accounts of the settled trade,
\* on a Record that an earlier Settle had consumed.
C3_Witness ==
  /\ WasExchange
  /\ X.escrow_account \in R.settled_before
  /\ TakerSigned
  /\ X.temp_token_account = "tmpX" /\ X.initializer = "alice"
  /\ X.pda_account = PDA
  /\ CallerAmount = Deposit
  /\ R.at = "unpack_escrow"

\* The last InitEscrow's accounts, once it named at least four.
InitRecordBefore == R.pre[R.tx.accounts[4]].data

InitOnOpenRecord ==
  /\ WasInit
  /\ Len(R.tx.accounts) >= 4
  /\ InitRecordBefore.kind = "escrow"
  /\ InitRecordBefore.is_initialized

\* The checks InitEscrow makes before it looks at the record: the initializer
\* signed, the destination is a token account of the custody service, the
\* record's storage is rent-exempt.
InitChecksBeforeRecordPass ==
  /\ R.tx.accounts[1] \in R.tx.signers
  /\ R.pre[R.tx.accounts[3]].owner = TokenProgram
  /\ R.pre[R.tx.accounts[3]].data.kind = "token"
  /\ R.pre[R.tx.accounts[4]].lamports >= MinRecordRent

\* C4 as stated: every Open on a Record that is already open fails with
\* AlreadyInitialized and leaves the Record as the first Open wrote it.
C4_Original ==
  InitOnOpenRecord =>
    /\ R.res = AccountAlreadyInitialized
    /\ NothingChanged

\* C4, amended: an Open on a Record that is already open fails and leaves the
\* Record's contents (initializer, holding account, destination account,
\* expected amount) and the holding account's authority as they were after
\* the first Open; the error is AlreadyInitialized when the Open passes the
\* checks made before the Record is decoded (the initializer signed, the
\* destination is a token account of the custody service, the storage is
\* rent-exempt), and the error of the first of those checks otherwise.
C4_ReopenRejected ==
  InitOnOpenRecord =>
    /\ R.res # Ok
    /\ NothingChanged
    /\ InitChecksBeforeRecordPass => R.res = AccountAlreadyInitialized

\* C4's case: a signed second Open that names another initializer, holding
\* account and amount than the open Record holds.
C4_Witness ==
  /\ InitOnOpenRecord
  /\ R.res = AccountAlreadyInitialized
  /\ R.tx.accounts[1] # InitRecordBefore.initializer_pubkey
  /\ R.tx.accounts[2] # InitRecordBefore.temp_token_account_pubkey
  /\ unpack(R.tx.data).amount # InitRecordBefore.expected_amount
  /\ accounts[R.tx.accounts[4]].data = InitRecordBefore

\* Some account of the last Exchange differs from the one the Record stores.
AccountsMismatch ==
  \/ X.temp_token_account # RecordBefore.temp_token_account_pubkey
  \/ X.initializer # RecordBefore.initializer_pubkey
  \/ X.initializer_dest_token_account
       # RecordBefore.initializer_dest_token_account_pubkey

\* C5 as stated: every Settle on an open Record that names an account other
\* than the Record's fails with InvalidAccountData and changes nothing, and a
\* successful Settle named the Record's accounts.
C5_Original ==
  /\ (WasExchange /\ RecordWasOpen /\ AccountsMismatch) =>
       /\ R.res = InvalidAccountData
       /\ R.calls = <<>>
       /\ NothingChanged
  /\ (WasExchange /\ R.res = Ok) => (RecordWasOpen /\ ~AccountsMismatch)

\* C5, amended: the anti-tamper cross-check.  A Settle signed by the taker on an open
\* Record that names a holding account, an initializer or an initializer
\* destination account other than the Record's fails with InvalidAccountData
\* before any custody call is issued: no balance changes and the Record stays
\* as it was.  Hence a successful Settle named the Record's own accounts, and
\* paid the destination and refunded the rent to the initializer recorded at
\* Open.
C5_CrossCheck ==
  /\ (WasExchange /\ RecordWasOpen /\ TakerSigned /\ AccountsMismatch) =>
       /\ R.res = InvalidAccountData
       /\ R.calls = <<>>
       /\ NothingChanged
  /\ (WasExchange /\ R.res = Ok) =>
       /\ RecordWasOpen
       /\ ~AccountsMismatch
       /\ accounts[RecordBefore.initializer_pubkey].lamports =
            R.pre[RecordBefore.initializer_pubkey].lamports
              + R.pre[RecordBefore.temp_token_account_pubkey].lamports
              + R.pre[X.escrow_account].lamports

\* C5's case: a signed Settle on an open Record in which only the
\* initializer's destination account is not the Record's.
C5_Witness ==
  /\ WasExchange /\ RecordWasOpen /\ TakerSigned
  /\ X.temp_token_account = RecordBefore.temp_token_account_pubkey
  /\ X.initializer = RecordBefore.initializer_pubkey
  /\ X.initializer_dest_token_account
       # RecordBefore.initializer_dest_token_account_pubkey
  /\ CallerAmount = R.pre[X.temp_token_account].data.amount
  /\ R.res = InvalidAccountData

\* C6 as stated: every Settle on an open Record, its accounts matching the
\* Record's, whose amount differs from the holding balance fails with
\* ExpectedAmountMismatch and changes nothing, and a successful Settle was
\* called with the whole holding balance.
C6_Original ==
  /\ (/\ WasExchange /\ RecordWasOpen /\ ~AccountsMismatch
      /\ R.pre[X.temp_token_account].data.kind = "token"
      /\ R.pre[X.temp_token_account].data.amount # CallerAmount) =>
       /\ R.res = ExpectedAmountMismatch
       /\ R.calls = <<>>
       /\ NothingChanged
  /\ (WasExchange /\ R.res = Ok) =>
       CallerAmount = R.pre[X.temp_token_account].data.amount

\* C6, amended: a Settle (signed by the taker, on an open Record, its accounts
\* matching the Record's) whose amount differs from the holding account's current balance
\* fails with ExpectedAmountMismatch, no custody call is issued and the
\* Record and every account stay as they were.  Conversely a successful
\* Settle delivers to the taker exactly the caller's amount, which is the
\* whole holding balance.
C6_AmountCheck ==
  /\ (/\ WasExchange /\ RecordWasOpen /\ TakerSigned /\ ~AccountsMismatch
      /\ R.pre[X.temp_token_account].data.kind = "token"
      /\ R.pre[X.temp_token_account].data.amount # CallerAmount) =>
       /\ R.res = ExpectedAmountMismatch
       /\ R.calls = <<>>
       /\ NothingChanged
  /\ (WasExchange /\ R.res = Ok) =>
       /\ CallerAmount = R.pre[X.temp_token_account].data.amount
       /\ X.taker_dest_token_account # X.temp_token_account =>
            accounts[X.taker_dest_token_account].data.amount =
              BalanceAfterLegs(X.taker_dest_token_account,
                               RecordBefore.expected_amount, CallerAmount)

\* C6's case: a Settle that is valid but for its amount, short of a holding
\* balance that is not zero.
C6_Witness ==
  /\ WasExchange /\ RecordWasOpen /\ TakerSigned /\ ~AccountsMismatch
  /\ R.pre[X.temp_token_account].data.amount = Deposit
  /\ CallerAmount = 1
  /\ R.res = ExpectedAmountMismatch
  /\ accounts[X.escrow_account].data = RecordBefore

\* C7: the rent reclaim.  When a Settle has come to the record's rent (both
\* legs and the close issued), and the Record's rent added to the
\* initializer's balance as the close left it would exceed the u64 maximum,
\* the Settle fails with Overflow and the Record and all balances are as
\* before the call; otherwise the initializer holds the exact sum.  No
\* balance ever exceeds the u64 maximum or wraps around it.
C7_RentOverflow ==
  /\ \A k \in DOMAIN accounts : accounts[k].lamports \in 0..U64_MAX
  /\ (WasExchange /\ R.at \in {"close_escrow", "done"}) =>
       LET sum == R.pre[X.initializer].lamports
                    + R.pre[X.temp_token_account].lamports
                    + R.pre[X.escrow_account].lamports
       IN  /\ Len(R.calls) = 3
           /\ sum > U64_MAX =>
                (R.res = Overflow /\ R.at = "close_escrow" /\ NothingChanged)
           /\ sum <= U64_MAX =>
                (R.res = Ok /\ accounts[X.initializer].lamports = sum)

\* C7's case: the reclaim overflows by one lamport after both legs and the
\* close were applied, and the ledger is as before.
C7_Witness ==
  /\ WasExchange
  /\ R.res = Overflow
  /\ R.at = "close_escrow"
  /\ R.calls = <<"transfer_to_initializer", "transfer_to_taker", "close_account">>
  /\ R.pre[X.initializer].lamports + R.pre[X.temp_token_account].lamports
       + R.pre[X.escrow_account].lamports = U64_MAX + 1
  /\ NothingChanged

\* The bytes of a whole instruction: the tag and the eight amount bytes.
InstructionLen == 1 + U64Bytes

Malformed(input) == Len(input) < InstructionLen \/ input[1] \notin {0, 1}

\* The little-endian value of bytes 1 to 8 (the second to the ninth), written
\* out as the sum of byte i times radix^(i-1).
RECURSIVE LittleEndianValue(_, _)
LittleEndianValue(input, i) ==
  IF i > U64Bytes THEN 0
  ELSE input[1 + i] * Pow(ByteBase, i - 1) + LittleEndianValue(input, i + 1)

\* C8: decoding rejects malformed input.  Every byte sequence shorter than 9
\* bytes (the empty one included) or whose first byte is neither 0 nor 1
\* fails to decode, the invocation returns InvalidInstruction from the decode
\* step, and neither handler runs: no custody call, no change of the ledger.
C8_DecodeRejects ==
  /\ \A i \in 1..Len(tx) :
       Malformed(tx[i].data) => ~unpack(tx[i].data).ok
  /\ (Returned /\ Malformed(R.tx.data)) =>
       /\ R.res = InvalidInstruction
       /\ R.at = "unpack"
       /\ R.calls = <<>>
       /\ NothingChanged

\* C8's case: an Open instruction one byte short has been processed.
C8_Witness ==
  /\ Returned
  /\ Len(R.tx.data) = InstructionLen - 1
  /\ R.tx.data[1] = 0
  /\ R.res = InvalidInstruction
  /\ NothingChanged

\* C9: decoding of well-formed input.  A byte sequence of at least 9 bytes
\* whose first byte is 0 (1) decodes to Open (Settle) with the little-endian
\* value of bytes 1 to 8 as amount, whatever follows the ninth byte: it
\* decodes as its first 9 bytes do.  The handler of that command then runs
\* with that amount (here Open succeeds and stores it in the Record; Settle
\* gets as far as decoding the Record).
C9_DecodeWellFormed ==
  /\ \A i \in 1..Len(tx) :
       ~Malformed(tx[i].data) =>
         /\ unpack(tx[i].data) =
              Decoded(IF tx[i].data[1] = 0 THEN "InitEscrow" ELSE "Exchange",
                      LittleEndianValue(tx[i].data, 1))
         /\ unpack(tx[i].data) = unpack(SubSeq(tx[i].data, 1, InstructionLen))
  /\ (Returned /\ ~Malformed(R.tx.data)) =>
       IF R.tx.data[1] = 0
       THEN /\ R.res = Ok
            /\ accounts[R.tx.accounts[4]].data.expected_amount =
                 LittleEndianValue(R.tx.data, 1)
       ELSE R.at = "unpack_escrow"

\* C9's case: an Open of ten bytes, its amount bytes not a palindrome and its
\* tenth byte not zero, has been processed and its amount stored.
C9_Witness ==
  /\ Returned
  /\ Len(R.tx.data) = InstructionLen + 1
  /\ R.tx.data[1] = 0
  /\ R.tx.data[2] = 1 /\ R.tx.data[3] = 1 /\ R.tx.data[InstructionLen] = 0
  /\ R.tx.data[InstructionLen + 1] = 1
  /\ R.res = Ok
  /\ accounts[R.tx.accounts[4]].data.expected_amount >= 1 + ByteBase

\* C10 as stated: every Open whose initializer destination account is not
\* owned by the custody service fails with the error kind the spec calls
\* IncorrectOwner (ProgramError::IncorrectProgramId), leaving the Record
\* uninitialized and the holding account's authority unchanged.
C10_Original ==
  (/\ WasInit /\ Len(R.tx.accounts) >= 4
   /\ R.pre[R.tx.accounts[3]].owner # TokenProgram) =>
     /\ R.res = IncorrectProgramId
     /\ accounts[R.tx.accounts[4]].data = ZeroedEscrow
     /\ accounts[R.tx.accounts[2]] = R.pre[R.tx.accounts[2]]

\* C10, amended: an Open signed by the initializer whose initializer
\* destination account is not owned by the custody service fails with
\* ProgramError::IncorrectProgramId (the kind the spec calls IncorrectOwner);
\* no custody call is issued, and the Record and the holding account's
\* authority are left as they were (an uninitialized Record stays
\* uninitialized).
C10_DestNotCustody ==
  (/\ WasInit /\ Len(R.tx.accounts) >= 3
   /\ R.tx.accounts[1] \in R.tx.signers
   /\ R.pre[R.tx.accounts[3]].owner # TokenProgram) =>
     /\ R.res = IncorrectProgramId
     /\ R.calls = <<>>
     /\ NothingChanged

\* C10's case: a signed Open on an uninitialized Record, the initializer's
\* own holding account, a destination owned by the system program.
C10_Witness ==
  /\ WasInit
  /\ R.tx.accounts[1] \in R.tx.signers
  /\ R.pre[R.tx.accounts[3]].owner = SystemProgram
  /\ R.pre[R.tx.accounts[4]].data = ZeroedEscrow
  /\ R.pre[R.tx.accounts[4]].lamports >= MinRecordRent
  /\ R.pre[R.tx.accounts[2]].data.owner = R.tx.accounts[1]
  /\ R.res = IncorrectProgramId
  /\ accounts[R.tx.accounts[4]].data = ZeroedEscrow
  /\ accounts[R.tx.accounts[2]].data.owner = R.tx.accounts[1]

\* ------------------------------------------------------------------- C11

\* The principal the last InitEscrow named as initializer signed it.
InitializerSigned == R.tx.accounts[1] \in R.tx.signers

\* The invocation stopped at its signer check: MissingRequiredSignature,
\* returned by the handler itself before any custody-service call, and the
\* ledger (records, authorities, balances) is what it was.
StoppedAtSignerCheck ==
  /\ R.res = MissingRequiredSignature
  /\ R.at = "signer"
  /\ R.calls = <<>>
  /\ NothingChanged

\* C11: an Open the initializer did not sign fails with MissingSigner, and a
\* Settle on an open Record the taker did not sign fails with MissingSigner;
\* both fail before any Record write, authority change or transfer, so the
\* Record, the holding account's authority and every balance are unchanged.
C11_SignerRequired ==
  /\ (WasInit /\ ~InitializerSigned) => StoppedAtSignerCheck
  /\ (WasExchange /\ RecordWasOpen /\ ~TakerSigned) => StoppedAtSignerCheck

\* An unsigned Settle on an open Record that names the accounts and the
\* amount a signed Settle would have needed.
C11_Witness ==
  /\ WasExchange /\ RecordWasOpen /\ ~TakerSigned
  /\ exchange_check_accounts(X, RecordBefore) = "ok"
  /\ exchange_check_amount(R.pre, X, CallerAmount) = Ok
  /\ StoppedAtSignerCheck


\* ------------------------------------------------------------------- C12

\* The last InitEscrow named a Record storage whose lamports do not make it
\* rent-exempt for its size: a record's storage holding less than a record's
\* minimum, or a storage the host removed, which holds nothing.
InitOnUnderfundedRecord ==
  /\ WasInit
  /\ \/ /\ R.pre[R.tx.accounts[4]].data.kind = "escrow"
        /\ R.pre[R.tx.accounts[4]].lamports < MinRecordRent
     \/ R.pre[R.tx.accounts[4]].lamports = 0

\* The Record is not open, its storage is as it was, and the holding account
\* is as it was, its authority included.
RecordUninitializedAuthorityKept ==
  /\ accounts[R.tx.accounts[4]].data \in {ZeroedEscrow, NoData}
  /\ accounts[R.tx.accounts[4]].data = R.pre[R.tx.accounts[4]].data
  /\ accounts[R.tx.accounts[2]].data = R.pre[R.tx.accounts[2]].data

\* C12 as stated: every Open on a Record storage that is not rent-exempt
\* fails with NotRentExempt, the Record left uninitialized and the holding
\* account's authority where it was.
C12_Original ==
  InitOnUnderfundedRecord =>
    /\ R.res = NotRentExempt
    /\ RecordUninitializedAuthorityKept

\* C12, amended: an Open that the initializer signed and whose destination
\* account is a token account of the custody service, on a Record storage
\* that is not rent-exempt, fails with NotRentExempt before the Record is
\* read or written and before any custody-service call; an Open on such a
\* storage that fails an earlier check fails with that check's error.  In
\* either case the Record is left uninitialized and the holding account's
\* authority where it was.
C12_NotRentExempt ==
  InitOnUnderfundedRecord =>
    /\ R.res # Ok
    /\ RecordUninitializedAuthorityKept
    /\ NothingChanged
    /\ (InitializerSigned /\ init_check_dest(R.pre, R.tx.accounts[3]) = Ok) =>
         /\ R.res = NotRentExempt
         /\ R.at = "rent"
         /\ R.calls = <<>>
    /\ ~InitializerSigned => R.res = MissingRequiredSignature
    /\ (InitializerSigned /\ init_check_dest(R.pre, R.tx.accounts[3]) # Ok) =>
         R.res = init_check_dest(R.pre, R.tx.accounts[3])

\* C12's case: a signed Open by the holder of the holding account, with a
\* good destination, on an underfunded uninitialized Record storage.
C12_Witness ==
  /\ InitOnUnderfundedRecord
  /\ InitializerSigned
  /\ init_check_dest(R.pre, R.tx.accounts[3]) = Ok
  /\ R.pre[R.tx.accounts[4]].data = ZeroedEscrow
  /\ R.pre[R.tx.accounts[2]].data.kind = "token"
  /\ R.pre[R.tx.accounts[2]].data.owner = R.tx.accounts[1]
  /\ R.res = NotRentExempt
  /\ accounts[R.tx.accounts[2]].data.owner = R.tx.accounts[1]

\* ------------------------------------------------------------------- C13

\* Record storage r holds an open Record in ledger st.
IsOpen(st, r) == st[r].data.kind = "escrow" /\ st[r].data.is_initialized

\* The holding account an open Record names.
HoldingOf(st, r) == st[r].data.temp_token_account_pubkey

\* Token account k is under authority p in ledger st.
ControlledBy(st, k, p) == st[k].data.kind = "token" /\ st[k].data.owner = p

\* Whenever a Record is open, its holding account exists and is controlled
\* by the program-derived authority.
OpenRecordsHeldByProgram ==
  \A r \in Records :
    IsOpen(accounts, r) => ControlledBy(accounts, HoldingOf(accounts, r), PDA)

\* The last invocation was a successful Open that handed k over: k is the
\* holding account it named, its authority was the initializer and is now
\* the program-derived authority, and the Record it named is open on k.
HandedOverByOpen(k) ==
  /\ WasInit /\ R.res = Ok
  /\ k = R.tx.accounts[2]
  /\ ControlledBy(R.pre, k, R.tx.accounts[1])
  /\ ControlledBy(accounts, k, PDA)
  /\ ~IsOpen(R.pre, R.tx.accounts[4])
  /\ IsOpen(accounts, R.tx.accounts[4])
  /\ HoldingOf(accounts, R.tx.accounts[4]) = k

\* The last invocation was a successful Settle that closed k: k is the
\* holding account of the Record settled and was under the program-derived
\* authority.
ClosedBySettle(k) ==
  /\ WasExchange /\ R.res = Ok
  /\ k = X.temp_token_account
  /\ RecordWasOpen /\ HoldingOf(R.pre, X.escrow_account) = k
  /\ ControlledBy(R.pre, k, PDA)
  /\ accounts[k] = Closed

\* An invocation leaves the authority of every token account where it was,
\* except for the hand-over of a successful Open and the close of a
\* successful Settle.
AuthorityChangesOnlyByOpenAndSettle ==
  Returned =>
    \A k \in TokenAccounts :
      R.pre[k].data.kind = "token" =>
        \/ ControlledBy(accounts, k, R.pre[k].data.owner)
        \/ HandedOverByOpen(k)
        \/ ClosedBySettle(k)

\* The asset held for a Record that was open before an invocation leaves its
\* holding account only by a successful Settle of that Record.
EscrowedAssetLeavesOnlyBySettle ==
  Returned =>
    \A r \in Records :
      IsOpen(R.pre, r) =>
        \/ /\ ControlledBy(accounts, HoldingOf(R.pre, r), PDA)
           /\ accounts[HoldingOf(R.pre, r)].data.amount
                >= R.pre[HoldingOf(R.pre, r)].data.amount
           /\ accounts[r].data = R.pre[r].data
        \/ /\ ClosedBySettle(HoldingOf(R.pre, r))
           /\ X.escrow_account = r

\* C13: the holding account has one authority, the initializer before a
\* successful Open and the program-derived authority from then until Settle
\* closes the account; whenever a Record is open its holding account is
\* controlled by the program-derived authority, and nothing but a successful
\* Settle of that Record moves the escrowed asset out.
C13_Custody ==
  /\ OpenRecordsHeldByProgram
  /\ AuthorityChangesOnlyByOpenAndSettle
  /\ EscrowedAssetLeavesOnlyBySettle

\* Two Records open at once, each on its own holding account, and a Settle
\* on one of them that named the other's holding account just refused.
C13_Witness ==
  /\ \A r \in Records : IsOpen(accounts, r)
  /\ WasExchange /\ TakerSigned /\ RecordWasOpen
  /\ \E r \in Records \ {X.escrow_account} :
       X.temp_token_account = HoldingOf(accounts, r)
  /\ R.res = InvalidAccountData

\* ------------------------------------------------------------------- C14

\* The last invocation was the successful Settle of Record r, which removed
\* it.
DestroyedBySettle(r) ==
  /\ WasExchange /\ R.res = Ok
  /\ X.escrow_account = r
  /\ accounts[r] = Closed

\* C14: a Record that is open keeps its fields (initializer, holding
\* account, destination account, expected amount) through every Open and
\* Settle until the successful Settle that destroys it; there is no update
\* or cancel, and a failed Open or Settle leaves every Record as it was.
C14_RecordImmutable ==
  Returned =>
    /\ \A r \in Records :
         IsOpen(R.pre, r) =>
           \/ accounts[r] = R.pre[r]
           \/ DestroyedBySettle(r)
    /\ R.res # Ok => \A r \in Records : accounts[r] = R.pre[r]

\* A signed Open by another initializer, with its own holding account and
\* another amount, on a Record that is open: refused, the Record as it was.
C14_Witness ==
  /\ WasInit /\ InitializerSigned
  /\ IsOpen(R.pre, R.tx.accounts[4])
  /\ R.pre[R.tx.accounts[4]].data.initializer_pubkey # R.tx.accounts[1]
  /\ R.pre[R.tx.accounts[4]].data.expected_amount # CallerAmount
  /\ ControlledBy(R.pre, R.tx.accounts[2], R.tx.accounts[1])
  /\ R.res = AccountAlreadyInitialized
  /\ accounts[R.tx.accounts[4]] = R.pre[R.tx.accounts[4]]

\* ------------------------------------------------------------------- C15

\* The steps of the last Exchange, each evaluated on what the one before it
\* left: the Record decode, the amount check, the two legs and the close.
StepDecode == Escrow_unpack(RecordBefore)

StepAmount == exchange_check_amount(R.pre, X, CallerAmount)

StepLeg1 ==
  exchange_transfer_to_initializer(R.pre, X, RecordBefore, R.tx.signers)

StepLeg2 ==
  exchange_transfer_to_taker(StepLeg1.st, X, RecordBefore, CallerAmount,
                             R.tx.signers)

StepClose == exchange_close_temp(StepLeg2.st, X, R.tx.signers)

StepReclaim == exchange_close_escrow(StepClose.st, X)

\* The custody-service calls of a Settle, in the order of its steps.
SettleCalls == <<"transfer_to_initializer", "transfer_to_taker", "close_account">>

IsPrefix(s, u) == Len(s) <= Len(u) /\ s = SubSeq(u, 1, Len(s))

\* The calls issued: none unless the three checks passed, Leg 2 only after
\* Leg 1 succeeded, the close only after Leg 2 succeeded.
CallsFollowSteps ==
  /\ IsPrefix(R.calls, SettleCalls)
  /\ Len(R.calls) >= 1 =>
       /\ StepDecode.res = Ok
       /\ ~AccountsMismatch
       /\ StepAmount = Ok
  /\ Len(R.calls) >= 2 => StepLeg1.res = Ok
  /\ Len(R.calls) >= 3 => StepLeg2.res = Ok

\* The error of the earliest failing step among the Record decode, the
\* cross-check and the balance check.
ChecksInOrder ==
  /\ StepDecode.res # Ok => R.res = StepDecode.res
  /\ (StepDecode.res = Ok /\ AccountsMismatch) => R.res = InvalidAccountData
  /\ (StepDecode.res = Ok /\ ~AccountsMismatch /\ StepAmount # Ok) =>
       R.res = StepAmount

\* C15 as stated: the steps run in the order Record decode, cross-check,
\* balance check, Leg 1, Leg 2, close, reclaim, and the error is that of the
\* earliest of them that fails.
C15_Original ==
  WasExchange => (ChecksInOrder /\ CallsFollowSteps)

\* C15, amended: the steps run in the order Record decode, taker's signature,
\* cross-check, balance check, Leg 1, Leg 2, close, reclaim; the error is
\* that of the earliest step that fails (an unsigned Settle on an open Record
\* fails with MissingSigner whatever accounts and amount it names; a signed
\* one with a mismatched holding account and a wrong amount fails with
\* InvalidAccountData); no custody-service call is issued unless the decode
\* and the three checks pass, Leg 2 only if Leg 1 succeeded, the close only
\* if Leg 2 succeeded, the reclaim only if the close succeeded.
C15_StepOrder ==
  WasExchange =>
    /\ CallsFollowSteps
    /\ Len(R.calls) >= 1 => TakerSigned
    /\ R.res =
         (IF StepDecode.res # Ok THEN StepDecode.res
          ELSE IF ~TakerSigned THEN MissingRequiredSignature
          ELSE IF AccountsMismatch THEN InvalidAccountData
          ELSE IF StepAmount # Ok THEN StepAmount
          ELSE IF StepLeg1.res # Ok THEN StepLeg1.res
          ELSE IF StepLeg2.res # Ok THEN StepLeg2.res
          ELSE IF StepClose.res # Ok THEN StepClose.res
          ELSE StepReclaim.res)
    /\ Len(R.calls) =
         (IF StepDecode.res # Ok \/ ~TakerSigned \/ AccountsMismatch
             \/ StepAmount # Ok THEN 0
          ELSE IF StepLeg1.res # Ok THEN 1
          ELSE IF StepLeg2.res # Ok THEN 2
          ELSE 3)

\* C15's example: a signed Settle on an open Record naming another holding
\* account and an amount that account does not hold.
C15_Witness ==
  /\ WasExchange /\ RecordWasOpen /\ TakerSigned
  /\ X.temp_token_account # RecordBefore.temp_token_account_pubkey
  /\ R.pre[X.temp_token_account].data.kind = "token"
  /\ R.pre[X.temp_token_account].data.amount # CallerAmount
  /\ R.res = InvalidAccountData
  /\ R.calls = <<>>

\* ------------------------------------------------------------------- C16

\* The accounts the last InitEscrow named.
InitInitializer == R.tx.accounts[1]

InitHolding == R.tx.accounts[2]

InitDest == R.tx.accounts[3]

InitRecord == R.tx.accounts[4]

\* The Record the last InitEscrow named is open with exactly what was
\* supplied.
RecordHoldsSupplied ==
  /\ accounts[InitRecord].data.kind = "escrow"
  /\ accounts[InitRecord].data.is_initialized
  /\ accounts[InitRecord].data.initializer_pubkey = InitInitializer
  /\ accounts[InitRecord].data.temp_token_account_pubkey = InitHolding
  /\ accounts[InitRecord].data.initializer_dest_token_account_pubkey = InitDest
  /\ accounts[InitRecord].data.expected_amount = CallerAmount

\* C16: a successful Open changes the Record (from uninitialized to open with
\* the supplied initializer, holding account, destination account and
\* amount) and the authority of the holding account (from the initializer to
\* the program-derived authority), and nothing else: every asset balance,
\* every rent balance, the destination account and every other Record are as
\* they were.
C16_OpenFrame ==
  (WasInit /\ R.res = Ok) =>
    /\ R.pre[InitRecord].data = ZeroedEscrow
    /\ RecordHoldsSupplied
    /\ ControlledBy(R.pre, InitHolding, InitInitializer)
    /\ ControlledBy(accounts, InitHolding, PDA)
    /\ accounts[InitRecord].lamports = R.pre[InitRecord].lamports
    /\ accounts[InitRecord].owner = R.pre[InitRecord].owner
    /\ accounts[InitHolding] =
         [R.pre[InitHolding] EXCEPT !.data.owner = PDA]
    /\ \A k \in Addresses \ {InitRecord, InitHolding} :
         accounts[k] = R.pre[k]

\* A successful Open of a non-zero amount while another Record is open.
C16_Witness ==
  /\ WasInit /\ R.res = Ok
  /\ CallerAmount # 0
  /\ RecordHoldsSupplied
  /\ \E r \in Records \ {InitRecord} : IsOpen(R.pre, r) /\ IsOpen(accounts, r)

\* ------------------------------------------------------------------- C17

AssetTypes == {"X", "Y"}

\* The units of asset type m that account k holds in ledger st.
AssetOf(st, k, m) ==
  IF st[k].data.kind = "token" /\ st[k].data.mint = m
  THEN st[k].data.amount ELSE 0

RECURSIVE SumAsset(_, _, _)
SumAsset(st, m, S) ==
  IF S = {} THEN 0
  ELSE LET k == CHOOSE x \in S : TRUE
       IN  AssetOf(st, k, m) + SumAsset(st, m, S \ {k})

RECURSIVE SumRent(_, _)
SumRent(st, S) ==
  IF S = {} THEN 0
  ELSE LET k == CHOOSE x \in S : TRUE
       IN  st[k].lamports + SumRent(st, S \ {k})

\* C17: for every asset type the sum of the balances of all asset accounts,
\* and the sum of the rent balances of all principals, Records and holding
\* accounts, is the same before and after every Open and every Settle,
\* successful or failed; a Settle touches only the taker's two asset
\* accounts, the holding account, the initializer, the initializer's
\* destination account and the Record.
C17_Conservation ==
  Returned =>
    /\ \A m \in AssetTypes :
         SumAsset(accounts, m, TokenAccounts) = SumAsset(R.pre, m, TokenAccounts)
    /\ SumRent(accounts, Principals \cup Records \cup TokenAccounts)
         = SumRent(R.pre, Principals \cup Records \cup TokenAccounts)
    /\ WasExchange =>
         \A k \in Addresses \ {X.taker_source_token_account,
                                X.taker_dest_token_account,
                                X.temp_token_account,
                                X.initializer,
                                X.initializer_dest_token_account,
                                X.escrow_account} :
           accounts[k] = R.pre[k]

\* A successful Settle that moved both assets and both rents.
C17_Witness ==
  /\ WasExchange /\ R.res = Ok
  /\ RecordBefore.expected_amount > 0
  /\ CallerAmount > 0
  /\ X.taker_source_token_account # X.initializer_dest_token_account
  /\ X.taker_dest_token_account # X.temp_token_account
  /\ accounts[X.initializer].lamports > R.pre[X.initializer].lamports
  /\ accounts[X.temp_token_account] = Closed
  /\ accounts[X.escrow_account] = Closed

\* ------------------------------------------------------------------- C18

\* The last InitEscrow passed every check the handler makes itself: signed,
\* a good destination, a rent-exempt and uninitialized Record storage.
InitPassesOwnChecks ==
  /\ WasInit /\ InitializerSigned
  /\ init_check_dest(R.pre, InitDest) = Ok
  /\ Rent_is_exempt(R.pre[InitRecord].lamports, R.pre[InitRecord].data)
  /\ R.pre[InitRecord].data = ZeroedEscrow

\* What the custody service answers to the authority change of the last
\* InitEscrow, and the ledger as the handler had it when it returned.
InitSetAuthority ==
  token_set_authority(R.pre, InitHolding, PDA, InitInitializer, R.tx.signers)

InitHandlerState ==
  process_init_escrow(R.pre, R.tx.accounts, R.tx.signers, CallerAmount).st

\* C18: Open writes the Record as open before it asks the custody service
\* for the authority change, and does not check the holding account's
\* authority itself; when the custody service rejects the change, Open fails
\* with the custody service's error and the Record is left uninitialized, so
\* a Record becomes open only with its holding account handed over to the
\* program-derived authority by that Open.
C18_RejectedHandOver ==
  /\ InitPassesOwnChecks =>
       /\ R.calls = <<"set_authority">>
       /\ IsOpen(InitHandlerState, InitRecord)
       /\ R.res = InitSetAuthority.res
  /\ (InitPassesOwnChecks /\ InitSetAuthority.res # Ok) =>
       /\ R.res # Ok
       /\ accounts[InitRecord].data = ZeroedEscrow
       /\ NothingChanged
  /\ (WasInit /\ ~IsOpen(R.pre, InitRecord) /\ IsOpen(accounts, InitRecord)) =>
       /\ R.res = Ok
       /\ ControlledBy(R.pre, InitHolding, InitInitializer)
       /\ ControlledBy(accounts, InitHolding, PDA)

\* C18's case: a signed Open that passes the handler's checks and names a
\* holding account under another principal's authority.
C18_Witness ==
  /\ InitPassesOwnChecks
  /\ R.pre[InitHolding].data.kind = "token"
  /\ R.pre[InitHolding].data.owner \in Principals \ {InitInitializer}
  /\ R.res = TokenError_OwnerMismatch
  /\ IsOpen(InitHandlerState, InitRecord)
  /\ accounts[InitRecord].data = ZeroedEscrow

\* ------------------------------------------------------------------- C19

\* No holding account is named by two distinct open Records.
HoldingsDistinct ==
  \A r1, r2 \in Records :
    (r1 # r2 /\ IsOpen(accounts, r1) /\ IsOpen(accounts, r2)) =>
      HoldingOf(accounts, r1) # HoldingOf(accounts, r2)

\* The last InitEscrow named a holding account that another open Record
\* holds.
InitOnEscrowedHolding ==
  /\ WasInit
  /\ \E r \in Records \ {InitRecord} :
       IsOpen(R.pre, r) /\ HoldingOf(R.pre, r) = InitHolding

\* C19: no holding account is named by two distinct open Records; an Open
\* naming a holding account escrowed under another open Record fails (when
\* it reaches the authority change, the custody service rejects it, the
\* initializer no longer controlling the account); a successful Settle of
\* one Record leaves the holding account of every other open Record under
\* the program-derived authority with no less than it held.
C19_HoldingExclusive ==
  /\ HoldingsDistinct
  /\ InitOnEscrowedHolding =>
       /\ R.res # Ok
       /\ NothingChanged
       /\ InitPassesOwnChecks =>
            /\ R.res = TokenError_OwnerMismatch
            /\ R.calls = <<"set_authority">>
  /\ (WasExchange /\ R.res = Ok) =>
       \A r \in Records \ {X.escrow_account} :
         IsOpen(R.pre, r) =>
           /\ HoldingOf(R.pre, r) # X.temp_token_account
           /\ accounts[r] = R.pre[r]
           /\ ControlledBy(accounts, HoldingOf(R.pre, r), PDA)
           /\ accounts[HoldingOf(R.pre, r)].data.amount
                >= R.pre[HoldingOf(R.pre, r)].data.amount

\* C19's case: the initializer of an open Record opens a second Record on
\* the same holding account, with everything else in order.
C19_Witness ==
  /\ InitOnEscrowedHolding
  /\ InitPassesOwnChecks
  /\ \E r \in Records \ {InitRecord} :
       /\ IsOpen(R.pre, r)
       /\ HoldingOf(R.pre, r) = InitHolding
       /\ R.pre[r].data.initializer_pubkey = InitInitializer
  /\ R.res = TokenError_OwnerMismatch
  /\ ~IsOpen(accounts, InitRecord)

====
